---- MODULE Spec2Model ----
(***************************************************************************)
(* Multi-taxi planning problem (TaxiProblem, src/multi_taxi_planning.py).  *)
(*                                                                         *)
(* Positions are pairs <<x, y>> with the 0-based indices of the source;    *)
(* the grid is a sequence of rows, so cell (x, y) is map[x + 1][y + 1].    *)
(* A rational number is a pair <<numerator, denominator>> with a positive  *)
(* denominator; the source's "/" is Python true division.                  *)
(***************************************************************************)
EXTENDS Integers, Sequences, FiniteSets, TLC

(* ---------------------------------------------------------------------- *)
(* Bounds of the inputs that Init enumerates                               *)
(* ---------------------------------------------------------------------- *)
MaxFuel == 2
MaxCapacity == 2
MaxSteps == 10
MaxPlan == 4

(* Dict iteration order of the taxi names (insertion order). *)
TaxiNames == <<"taxi 1", "taxi 2", "taxi 3">>

(* Dict iteration order of the passenger names (insertion order). *)
PassengerNames == <<"Iris", "Tomer">>

VARIABLES
    initial,     \* the input dict handed to TaxiProblem(initial)
    state,       \* the current state dict (the decoded JSON state)
    evaluated,   \* TRUE once the search has evaluated the heuristics of a node
    node_h,      \* heuristic values h, h_1, h_2 of that node
    path_cost    \* number of steps taken since that node

vars == <<initial, state, evaluated, node_h, path_cost>>

(* ---------------------------------------------------------------------- *)
(* Helpers                                                                 *)
(* ---------------------------------------------------------------------- *)
Range(s) == {s[i] : i \in DOMAIN s}

\* Keys of a dict in iteration order.
Keys(names, d) == SelectSeq(names, LAMBDA n : n \in DOMAIN d)

Abs(n) == IF n < 0 THEN -n ELSE n

RECURSIVE SumOver(_, _)
SumOver(S, f) ==
    IF S = {} THEN 0
    ELSE LET e == CHOOSE e \in S : TRUE IN f[e] + SumOver(S \ {e}, f)

\* self.map
Map == initial.map

Cell(x, y) == Map[x + 1][y + 1]

(* ---------------------------------------------------------------------- *)
(* TaxiProblem.__init__                                                    *)
(* ---------------------------------------------------------------------- *)
InitialState(inp) ==
    [ taxis |-> [t \in DOMAIN inp.taxis |->
                    [ location |-> inp.taxis[t].location,
                      fuel |-> inp.taxis[t].fuel,
                      capacity |-> inp.taxis[t].capacity,
                      MAX_FUEL |-> inp.taxis[t].fuel,
                      passengers_on_taxi |-> <<>> ]],
      passengers |-> [p \in DOMAIN inp.passengers |->
                    [ location |-> inp.passengers[p].location,
                      destination |-> inp.passengers[p].destination,
                      is_picked |-> FALSE,
                      is_arrived |-> FALSE,
                      current_location |-> inp.passengers[p].location ]],
      num_of_undelivered |-> Cardinality(DOMAIN inp.passengers),
      num_of_unpicked |-> Cardinality(DOMAIN inp.passengers),
      num_of_picked_undelivered |-> 0 ]

(* ---------------------------------------------------------------------- *)
(* TaxiProblem.actions                                                     *)
(* ---------------------------------------------------------------------- *)
\* str(elem): the decimal digits of a non-negative integer.
RECURSIVE str(_)
str(n) ==
    IF n < 10 THEN <<n>> ELSE str(n \div 10) \o <<n % 10>>

\* ' '.join([str(elem) for elem in loc]); the blank is written as -1.
JoinLocation(loc) == str(loc[1]) \o <<-1>> \o str(loc[2])

\* A "movement" block whose fuel test admits an empty tank.
move_targets_no_fuel_test(s, taxi) ==
    LET x == s.taxis[taxi].location[1]
        y == s.taxis[taxi].location[2]
        rows == Len(Map) - 1
        cols == Len(Map[1]) - 1
    IN  IF s.taxis[taxi].fuel >= 0
        THEN (IF x < rows /\ Cell(x + 1, y) # "I" THEN {<<x + 1, y>>} ELSE {})
             \cup (IF x >= 1 /\ Cell(x - 1, y) # "I" THEN {<<x - 1, y>>} ELSE {})
             \cup (IF y < cols /\ Cell(x, y + 1) # "I" THEN {<<x, y + 1>>} ELSE {})
             \cup (IF y >= 1 /\ Cell(x, y - 1) # "I" THEN {<<x, y - 1>>} ELSE {})
        ELSE {}

\* A "movement" block without the wall tests.
move_targets_through_walls(s, taxi) ==
    LET x == s.taxis[taxi].location[1]
        y == s.taxis[taxi].location[2]
        rows == Len(Map) - 1
        cols == Len(Map[1]) - 1
    IN  IF s.taxis[taxi].fuel > 0
        THEN (IF x < rows THEN {<<x + 1, y>>} ELSE {})
             \cup (IF x >= 1 THEN {<<x - 1, y>>} ELSE {})
             \cup (IF y < cols THEN {<<x, y + 1>>} ELSE {})
             \cup (IF y >= 1 THEN {<<x, y - 1>>} ELSE {})
        ELSE {}

\* The "movement" block: the cells a taxi may move to.
move_targets(s, taxi) ==
    LET x == s.taxis[taxi].location[1]
        y == s.taxis[taxi].location[2]
        rows == Len(Map) - 1
        cols == Len(Map[1]) - 1
    IN  IF s.taxis[taxi].fuel > 0
        THEN (IF x < rows /\ Cell(x + 1, y) # "I" THEN {<<x + 1, y>>} ELSE {})
             \cup (IF x >= 1 /\ Cell(x - 1, y) # "I" THEN {<<x - 1, y>>} ELSE {})
             \cup (IF y < cols /\ Cell(x, y + 1) # "I" THEN {<<x, y + 1>>} ELSE {})
             \cup (IF y >= 1 /\ Cell(x, y - 1) # "I" THEN {<<x, y - 1>>} ELSE {})
        ELSE {}

\* A "picking" block without the capacity test.
pick_ups_no_capacity_test(s, taxi) ==
    LET x == s.taxis[taxi].location[1]
        y == s.taxis[taxi].location[2]
    IN  {p \in DOMAIN s.passengers :
             /\ s.passengers[p].is_picked = FALSE
             /\ x = s.passengers[p].location[1]
             /\ y = s.passengers[p].location[2]}

\* The "picking" block: the passengers a taxi may pick up.
pick_ups(s, taxi) ==
    LET x == s.taxis[taxi].location[1]
        y == s.taxis[taxi].location[2]
    IN  IF s.taxis[taxi].capacity > 0
        THEN {p \in DOMAIN s.passengers :
                 /\ s.passengers[p].is_picked = FALSE
                 /\ x = s.passengers[p].location[1]
                 /\ y = s.passengers[p].location[2]}
        ELSE {}

\* A "dropping" block without the destination test.
drop_offs_anywhere(s, taxi) ==
    {p \in DOMAIN s.passengers : p \in Range(s.taxis[taxi].passengers_on_taxi)}

\* A "dropping" block that tests is_picked instead of the taxi's own list.
drop_offs_any_picked(s, taxi) ==
    LET x == s.taxis[taxi].location[1]
        y == s.taxis[taxi].location[2]
    IN  {p \in DOMAIN s.passengers :
             /\ s.passengers[p].is_picked
             /\ x = s.passengers[p].destination[1]
             /\ y = s.passengers[p].destination[2]}

\* The "dropping" block: the passengers a taxi may drop off.
drop_offs(s, taxi) ==
    LET x == s.taxis[taxi].location[1]
        y == s.taxis[taxi].location[2]
    IN  {p \in DOMAIN s.passengers :
             /\ p \in Range(s.taxis[taxi].passengers_on_taxi)
             /\ x = s.passengers[p].destination[1]
             /\ y = s.passengers[p].destination[2]}

\* The "refuel" block.
refuels(s, taxi) ==
    IF Cell(s.taxis[taxi].location[1], s.taxis[taxi].location[2]) = "G"
    THEN {<<"refuel", taxi>>}
    ELSE {}

\* The atomic actions of one taxi (the list taxi_action of the source).
taxi_action(s, taxi) ==
    {<<"wait", taxi>>}
    \cup {<<"move", taxi, m>> : m \in move_targets(s, taxi)}
    \cup {<<"pick up", taxi, p>> : p \in pick_ups(s, taxi)}
    \cup {<<"drop off", taxi, p>> : p \in drop_offs(s, taxi)}
    \cup refuels(s, taxi)

\* itertools.product(*taxis_action)
RECURSIVE product(_)
product(sets) ==
    IF sets = <<>> THEN {<<>>}
    ELSE {<<a>> \o rest : a \in Head(sets), rest \in product(Tail(sets))}

\* A joined string that is the taxi's present cell, whatever the action.
location_of_before_step(s, tax_act) ==
    JoinLocation(s.taxis[tax_act[2]].location)

\* The cell a taxi occupies after its atomic action, as the joined string.
location_of(s, tax_act) ==
    IF tax_act[1] # "move"
    THEN JoinLocation(s.taxis[tax_act[2]].location)
    ELSE JoinLocation(tax_act[3])

\* A filter that compares the move targets only.
no_collision_moves_only(s, action) ==
    LET movers == {i \in DOMAIN action : action[i][1] = "move"}
    IN  Cardinality(movers) =
            Cardinality({location_of(s, action[i]) : i \in movers})

\* The collision filter: keep a joint action iff no two joined strings agree.
no_collision(s, action) ==
    Len(action) = Cardinality({location_of(s, action[i]) : i \in DOMAIN action})

taxis_action(s) ==
    LET order == Keys(TaxiNames, s.taxis)
    IN  [i \in DOMAIN order |-> taxi_action(s, order[i])]

\* An enumeration that returns the whole Cartesian product.
actions_unfiltered(s) ==
    IF Len(taxis_action(s)) = 1
    THEN taxis_action(s)[1]
    ELSE product(taxis_action(s))

actions(s) ==
    IF Len(taxis_action(s)) = 1
    THEN taxis_action(s)[1]
    ELSE {action \in product(taxis_action(s)) : no_collision(s, action)}

(* ---------------------------------------------------------------------- *)
(* TaxiProblem.apply_taxi_action and TaxiProblem.result                    *)
(* ---------------------------------------------------------------------- *)
\* list.remove(x): drop the first occurrence of x.
RECURSIVE remove(_, _)
remove(seq, x) ==
    IF seq = <<>> THEN <<>>
    ELSE IF Head(seq) = x THEN Tail(seq)
    ELSE <<Head(seq)>> \o remove(Tail(seq), x)

\* A move that leaves the passengers on board where they were.
apply_move_taxi_only(s, taxi, target) ==
    [s EXCEPT
        !.taxis[taxi].location = target,
        !.taxis[taxi].fuel = @ - 1]

\* A move that carries along every picked, undelivered passenger standing on
\* the cell the taxi leaves.
apply_move_by_cell(s, taxi, target) ==
    [s EXCEPT
        !.taxis[taxi].location = target,
        !.taxis[taxi].fuel = @ - 1,
        !.passengers = [p \in DOMAIN s.passengers |->
            IF /\ s.passengers[p].is_picked
               /\ ~s.passengers[p].is_arrived
               /\ s.passengers[p].current_location = s.taxis[taxi].location
            THEN [s.passengers[p] EXCEPT !.current_location = target]
            ELSE s.passengers[p]]]

apply_move(s, taxi, target) ==
    [s EXCEPT
        !.taxis[taxi].location = target,
        !.taxis[taxi].fuel = @ - 1,
        !.passengers = [p \in DOMAIN s.passengers |->
            IF p \in Range(s.taxis[taxi].passengers_on_taxi)
            THEN [s.passengers[p] EXCEPT !.current_location = target]
            ELSE s.passengers[p]]]

\* A pick up that leaves num_of_unpicked alone.
apply_pick_up_no_decrement(s, taxi, passenger) ==
    [s EXCEPT
        !.taxis[taxi].capacity = @ - 1,
        !.taxis[taxi].passengers_on_taxi = Append(@, passenger),
        !.passengers[passenger].is_picked = TRUE,
        !.num_of_picked_undelivered = @ + 1]

apply_pick_up(s, taxi, passenger) ==
    [s EXCEPT
        !.taxis[taxi].capacity = @ - 1,
        !.taxis[taxi].passengers_on_taxi = Append(@, passenger),
        !.passengers[passenger].is_picked = TRUE,
        !.num_of_unpicked = @ - 1,
        !.num_of_picked_undelivered = @ + 1]

\* A drop off that leaves the passenger in the taxi's list.
apply_drop_off_keeps_seat(s, taxi, passenger) ==
    [s EXCEPT
        !.taxis[taxi].capacity = @ + 1,
        !.num_of_undelivered = @ - 1,
        !.passengers[passenger].is_arrived = TRUE,
        !.num_of_picked_undelivered = @ - 1]

apply_drop_off(s, taxi, passenger) ==
    [s EXCEPT
        !.taxis[taxi].capacity = @ + 1,
        !.num_of_undelivered = @ - 1,
        !.passengers[passenger].is_arrived = TRUE,
        !.taxis[taxi].passengers_on_taxi = remove(@, passenger),
        !.num_of_picked_undelivered = @ - 1]

\* A refuel that adds one unit of fuel.
apply_refuel_one_unit(s, taxi) ==
    [s EXCEPT !.taxis[taxi].fuel = @ + 1]

apply_refuel(s, taxi) ==
    [s EXCEPT !.taxis[taxi].fuel = s.taxis[taxi].MAX_FUEL]

apply_taxi_action(s, a) ==
    CASE a[1] = "move" -> apply_move(s, a[2], a[3])
      [] a[1] = "pick up" -> apply_pick_up(s, a[2], a[3])
      [] a[1] = "drop off" -> apply_drop_off(s, a[2], a[3])
      [] a[1] = "refuel" -> apply_refuel(s, a[2])
      [] OTHER -> s

\* The loop "for taxi_action in action" of result().
RECURSIVE apply_all(_, _)
apply_all(s, action) ==
    IF action = <<>> THEN s
    ELSE apply_all(apply_taxi_action(s, Head(action)), Tail(action))

\* isinstance(action[0], str) holds exactly for the atomic actions, which
\* actions() returns exactly when there is one taxi.
result(s, action) ==
    IF Len(taxis_action(s)) = 1
    THEN apply_taxi_action(s, action)
    ELSE apply_all(s, action)

(* ---------------------------------------------------------------------- *)
(* json.dumps: the state value handed to the search is the JSON text of    *)
(* the state dict, modelled as its sequence of tokens.  Keys are written   *)
(* in dict order, lists in list order; with an indent every item starts    *)
(* on a new line.                                                          *)
(* ---------------------------------------------------------------------- *)
newline(indent) == IF indent > 0 THEN <<"newline", ToString(indent)>> ELSE <<>>

RECURSIVE dumps_list(_, _)
dumps_list(seq, indent) ==
    IF seq = <<>> THEN <<>>
    ELSE newline(indent) \o <<Head(seq)>> \o dumps_list(Tail(seq), indent)

dumps_location(loc, indent) ==
    <<"[">> \o dumps_list(<<ToString(loc[1]), ToString(loc[2])>>, indent)
            \o newline(indent) \o <<"]">>

dumps_taxi(taxi, indent) ==
    <<"{">>
    \o newline(indent) \o <<"location">> \o dumps_location(taxi.location, indent)
    \o newline(indent) \o <<"fuel", ToString(taxi.fuel)>>
    \o newline(indent) \o <<"capacity", ToString(taxi.capacity)>>
    \o newline(indent) \o <<"MAX_FUEL", ToString(taxi.MAX_FUEL)>>
    \o newline(indent) \o <<"passengers_on_taxi", "[">>
    \o dumps_list(taxi.passengers_on_taxi, indent)
    \o newline(indent) \o <<"]">>
    \o newline(indent) \o <<"}">>

dumps_passenger(passenger, indent) ==
    <<"{">>
    \o newline(indent) \o <<"location">>
    \o dumps_location(passenger.location, indent)
    \o newline(indent) \o <<"destination">>
    \o dumps_location(passenger.destination, indent)
    \o newline(indent) \o <<"is_picked", ToString(passenger.is_picked)>>
    \o newline(indent) \o <<"is_arrived", ToString(passenger.is_arrived)>>
    \o newline(indent) \o <<"current_location">>
    \o dumps_location(passenger.current_location, indent)
    \o newline(indent) \o <<"}">>

RECURSIVE dumps_taxis(_, _, _)
dumps_taxis(order, taxis, indent) ==
    IF order = <<>> THEN <<>>
    ELSE newline(indent) \o <<Head(order)>>
         \o dumps_taxi(taxis[Head(order)], indent)
         \o dumps_taxis(Tail(order), taxis, indent)

RECURSIVE dumps_passengers(_, _, _)
dumps_passengers(order, passengers, indent) ==
    IF order = <<>> THEN <<>>
    ELSE newline(indent) \o <<Head(order)>>
         \o dumps_passenger(passengers[Head(order)], indent)
         \o dumps_passengers(Tail(order), passengers, indent)

dumps(s, indent) ==
    <<"{">>
    \o newline(indent) \o <<"taxis", "{">>
    \o dumps_taxis(Keys(TaxiNames, s.taxis), s.taxis, indent)
    \o newline(indent) \o <<"}">>
    \o newline(indent) \o <<"passengers", "{">>
    \o dumps_passengers(Keys(PassengerNames, s.passengers), s.passengers, indent)
    \o newline(indent) \o <<"}">>
    \o newline(indent) \o <<"num_of_undelivered", ToString(s.num_of_undelivered)>>
    \o newline(indent) \o <<"num_of_unpicked", ToString(s.num_of_unpicked)>>
    \o newline(indent)
    \o <<"num_of_picked_undelivered", ToString(s.num_of_picked_undelivered)>>
    \o newline(indent) \o <<"}">>

\* The state value built by __init__: json.dumps(state, indent=3).
initial_value(inp) == dumps(InitialState(inp), 3)

\* The state value returned by result(): json.dumps(state).
result_value(s, action) == dumps(result(s, action), 0)

(* ---------------------------------------------------------------------- *)
(* TaxiProblem.goal_test                                                   *)
(* ---------------------------------------------------------------------- *)
\* A goal test that reads the wrong counter.
goal_test_unpicked(s) == s.num_of_unpicked = 0

goal_test(s) == s.num_of_undelivered = 0

(* ---------------------------------------------------------------------- *)
(* Heuristics                                                              *)
(* ---------------------------------------------------------------------- *)
manhattan_distance(point1, point2) ==
    Abs(point1[1] - point2[1]) + Abs(point1[2] - point2[2])

min_dis_start == 100000

\* find_distance_of_closest_taxi(...)[0]: running minimum over the taxis.
RECURSIVE closest_scan(_, _, _, _)
closest_scan(passenger_loc, s, order, min_dis) ==
    IF order = <<>> THEN min_dis
    ELSE LET pass_dis == manhattan_distance(passenger_loc,
                                            s.taxis[Head(order)].location)
         IN  closest_scan(passenger_loc, s, Tail(order),
                          IF pass_dis < min_dis THEN pass_dis ELSE min_dis)

find_distance_of_closest_taxi(passenger_loc, s) ==
    closest_scan(passenger_loc, s, Keys(TaxiNames, s.taxis), min_dis_start)

h(s) ==
    IF s.num_of_undelivered = 0 THEN <<0, 1>>
    ELSE
    LET passengers == s.passengers
        sum_of_dis_to_dest ==
            SumOver({p \in DOMAIN passengers : passengers[p].is_arrived = FALSE},
                    [p \in DOMAIN passengers |->
                        manhattan_distance(passengers[p].current_location,
                                           passengers[p].destination)])
        sum_of_dis_to_closest_taxi ==
            SumOver({p \in DOMAIN passengers : passengers[p].is_picked = FALSE},
                    [p \in DOMAIN passengers |->
                        find_distance_of_closest_taxi(
                            passengers[p].current_location, s)])
        und == s.num_of_undelivered
        unp == s.num_of_unpicked
        sum_capacity ==
            SumOver(DOMAIN s.taxis, [t \in DOMAIN s.taxis |-> s.taxis[t].capacity])
        diff_cap_unpicked_pass == unp - sum_capacity
    IN  IF unp > 0
        THEN IF diff_cap_unpicked_pass > 0
             THEN <<sum_of_dis_to_dest * unp + sum_of_dis_to_closest_taxi * und
                      + (diff_cap_unpicked_pass + und + unp) * und * unp,
                    und * unp>>
             ELSE <<sum_of_dis_to_dest * unp + sum_of_dis_to_closest_taxi * und
                      + (und + unp) * und * unp,
                    und * unp>>
        ELSE <<sum_of_dis_to_dest + und * und, und>>

\* An h_1 that is not divided by the number of taxis.
h_1_undivided(s) ==
    <<s.num_of_unpicked * 2 + s.num_of_picked_undelivered, 1>>

h_1(s) ==
    <<s.num_of_unpicked * 2 + s.num_of_picked_undelivered,
      Cardinality(DOMAIN s.taxis)>>

h_2(s) ==
    LET sum_of_initial_distance ==
            SumOver(DOMAIN s.passengers,
                    [p \in DOMAIN s.passengers |->
                        manhattan_distance(s.passengers[p].destination,
                                           s.passengers[p].location)])
        sum_of_curr_distance ==
            SumOver(DOMAIN s.passengers,
                    [p \in DOMAIN s.passengers |->
                        manhattan_distance(s.passengers[p].destination,
                                           s.passengers[p].current_location)])
    IN  <<sum_of_initial_distance + sum_of_curr_distance,
          Cardinality(DOMAIN s.taxis)>>

\* value <= k and value = 0 for a rational value and an integer k
LeqInt(value, k) == value[1] <= k * value[2]
IsZero(value) == value[1] = 0

(* ---------------------------------------------------------------------- *)
(* Inputs                                                                  *)
(* ---------------------------------------------------------------------- *)
MapA == << <<"P", "P", "G">>,
           <<"P", "I", "P">> >>
MapB == << <<"P", "G">>,
           <<"P", "P">> >>
MapC == << <<"P", "P">> >>

Taxi(loc, fuel, capacity) ==
    [location |-> loc, fuel |-> fuel, capacity |-> capacity]
Passenger(loc, dest) == [location |-> loc, destination |-> dest]

NoPassengers == [p \in {} |-> Passenger(<<0, 0>>, <<0, 0>>)]

\* One taxi on the 1x2 grid, with no passenger or one passenger.
InputsSmall ==
    {[map |-> MapC,
      taxis |-> ("taxi 1" :> Taxi(<<0, 0>>, f, c)),
      passengers |-> ps] :
        f \in 0..MaxFuel, c \in 0..MaxCapacity,
        ps \in {NoPassengers, ("Iris" :> Passenger(<<0, 0>>, <<0, 1>>))}}

\* One taxi, two passengers, a wall and a gas station.
InputsOne ==
    {[map |-> MapA,
      taxis |-> ("taxi 1" :> Taxi(<<0, 0>>, f, c)),
      passengers |->
          ("Iris" :> Passenger(<<0, 0>>, d) @@
           "Tomer" :> Passenger(o, <<0, 0>>))] :
        f \in 0..MaxFuel, c \in 0..MaxCapacity,
        d \in {<<0, 1>>, <<1, 0>>}, o \in {<<0, 0>>, <<0, 1>>}}

\* Two taxis, starting on one cell or on two.
InputsTwo ==
    {[map |-> MapA,
      taxis |-> ("taxi 1" :> Taxi(l1, f1, c1) @@
                 "taxi 2" :> Taxi(<<0, 2>>, f2, c2)),
      passengers |->
          ("Iris" :> Passenger(<<0, 0>>, <<0, 1>>) @@
           "Tomer" :> Passenger(<<0, 2>>, <<0, 2>>))] :
        f1 \in 0..MaxFuel, f2 \in 0..MaxFuel,
        c1 \in 0..MaxCapacity, c2 \in 0..MaxCapacity,
        l1 \in {<<0, 0>>, <<0, 2>>}}

\* Three taxis on a 2x2 grid.
InputsThree ==
    {[map |-> MapB,
      taxis |-> ("taxi 1" :> Taxi(<<0, 0>>, f, 1) @@
                 "taxi 2" :> Taxi(<<0, 1>>, f, 1) @@
                 "taxi 3" :> Taxi(<<1, 1>>, 1, c)),
      passengers |-> ("Iris" :> Passenger(<<1, 0>>, <<0, 0>>))] :
        f \in 0..MaxFuel, c \in 0..MaxCapacity}

Inputs == InputsSmall \cup InputsOne \cup InputsTwo \cup InputsThree

\* The inputs with two taxis on which the heuristics are compared with path
\* lengths: the second taxi, whose passenger need not be driven, has no fuel.
InputsTwoAdm ==
    {inp \in InputsTwo : inp.taxis["taxi 2"].fuel = 0}

InputsAdm == InputsSmall \cup InputsOne \cup InputsTwoAdm \cup InputsThree

(* ---------------------------------------------------------------------- *)
(* The state machine                                                       *)
(* ---------------------------------------------------------------------- *)
Zero == <<0, 1>>

\* TaxiProblem(inp) for an input of the given set; no node evaluated yet.
Construct(inputs) ==
    /\ initial \in inputs
    /\ state = InitialState(initial)
    /\ evaluated = FALSE
    /\ node_h = [h |-> Zero, h_1 |-> Zero, h_2 |-> Zero]
    /\ path_cost = 0

Init == Construct(Inputs)

InitAdm == Construct(InputsAdm)

\* One expansion step of the search: state' = result(state, action) for an
\* action of actions(state).  Once a node has been evaluated the steps from
\* it are counted, up to MaxSteps and up to the first goal state.
Expand ==
    /\ evaluated => (path_cost < MaxSteps /\ ~goal_test(state))
    /\ \E action \in actions(state) : state' = result(state, action)
    /\ path_cost' = IF evaluated THEN path_cost + 1 ELSE path_cost
    /\ UNCHANGED <<initial, evaluated, node_h>>

\* result() on an atomic action (one taxi).
StepAtomic == Len(taxis_action(state)) = 1 /\ Expand

\* result() on a tuple of per-taxi actions (several taxis).
StepJoint == Len(taxis_action(state)) # 1 /\ Expand

\* The search evaluates h, h_1 and h_2 on the node of the current state.
Evaluate ==
    /\ ~evaluated
    /\ evaluated' = TRUE
    /\ node_h' = [h |-> h(state), h_1 |-> h_1(state), h_2 |-> h_2(state)]
    /\ UNCHANGED <<initial, state, path_cost>>

Next == StepAtomic \/ StepJoint

Spec == Init /\ [][Next]_vars

(* ---------------------------------------------------------------------- *)
(* Vocabulary of the properties                                            *)
(* ---------------------------------------------------------------------- *)
NumTaxis == Cardinality(DOMAIN state.taxis)

\* The atomic actions contained in an action returned by actions().
Components(action) == IF NumTaxis = 1 THEN {action} ELSE Range(action)

\* All atomic actions that actions(state) returns, alone or in a tuple.
Offered == UNION {Components(action) : action \in actions(state)}

\* The cell a taxi occupies after its atomic action.
PostPosition(a) == IF a[1] = "move" THEN a[3] ELSE state.taxis[a[2]].location

PairwiseDistinct(action) ==
    \A i, j \in DOMAIN action :
        i # j => PostPosition(action[i]) # PostPosition(action[j])

Unpicked == {p \in DOMAIN state.passengers : ~state.passengers[p].is_picked}
OnBoard == {p \in DOMAIN state.passengers :
               state.passengers[p].is_picked /\ ~state.passengers[p].is_arrived}
Undelivered == {p \in DOMAIN state.passengers : ~state.passengers[p].is_arrived}

(* ---------------------------------------------------------------------- *)
(* C1: in every reachable state num_of_undelivered = num_of_unpicked +     *)
(* num_of_picked_undelivered, and each of the three counters equals the    *)
(* direct count over the passenger map (so none is negative).              *)
(* ---------------------------------------------------------------------- *)
CounterInvariant ==
    /\ state.num_of_undelivered =
           state.num_of_unpicked + state.num_of_picked_undelivered
    /\ state.num_of_unpicked = Cardinality(Unpicked)
    /\ state.num_of_picked_undelivered = Cardinality(OnBoard)
    /\ state.num_of_undelivered = Cardinality(Undelivered)

\* One passenger delivered, another on board: both a pick up and a drop off
\* have updated the counters.
CounterWitness ==
    /\ state.num_of_picked_undelivered = 1
    /\ state.num_of_undelivered = 1
    /\ Cardinality(DOMAIN state.passengers) = 2

(* ---------------------------------------------------------------------- *)
(* C2: with two or more taxis, the post-step positions of the taxis are    *)
(* pairwise distinct in every joint action that actions() returns, and     *)
(* every element of the Cartesian product of the per-taxi atomic actions   *)
(* with pairwise distinct post-step positions is returned.                 *)
(* ---------------------------------------------------------------------- *)
NoCollision ==
    NumTaxis >= 2 =>
        /\ \A action \in actions(state) : PairwiseDistinct(action)
        /\ \A action \in product(taxis_action(state)) :
               PairwiseDistinct(action) => action \in actions(state)

\* Three taxis, one of which may move onto the cell of a waiting one while
\* another joint action with a move is kept.
NoCollisionWitness ==
    /\ NumTaxis = 3
    /\ \E action \in product(taxis_action(state)) :
           /\ action \notin actions(state)
           /\ \E i \in DOMAIN action : action[i][1] = "move"
    /\ \E action \in actions(state) :
           \E i \in DOMAIN action : action[i][1] = "move"

(* ---------------------------------------------------------------------- *)
(* C6: in every reachable state goal_test(state) is true iff every         *)
(* passenger has is_arrived true.                                          *)
(* ---------------------------------------------------------------------- *)
GoalIffAllArrived ==
    goal_test(state) <=>
        \A p \in DOMAIN state.passengers : state.passengers[p].is_arrived

\* A goal state reached by delivering two passengers.
GoalWitness ==
    /\ goal_test(state)
    /\ Cardinality(DOMAIN state.passengers) = 2
    /\ \A p \in DOMAIN state.passengers : state.passengers[p].is_arrived

(* ---------------------------------------------------------------------- *)
(* C7: in every reachable goal state each of h, h_1 and h_2 returns 0.     *)
(* ---------------------------------------------------------------------- *)
GoalHeuristicsZero ==
    goal_test(state) =>
        IsZero(h(state)) /\ IsZero(h_1(state)) /\ IsZero(h_2(state))

(* ---------------------------------------------------------------------- *)
(* C8: in every reachable state every taxi has 0 <= fuel <= MAX_FUEL,      *)
(* MAX_FUEL being its initial fuel, and actions() never returns a move for *)
(* a taxi whose fuel is 0.                                                 *)
(* ---------------------------------------------------------------------- *)
FuelBounds ==
    /\ \A t \in DOMAIN state.taxis :
           /\ state.taxis[t].MAX_FUEL = initial.taxis[t].fuel
           /\ 0 <= state.taxis[t].fuel
           /\ state.taxis[t].fuel <= state.taxis[t].MAX_FUEL
    /\ \A a \in Offered : a[1] = "move" => state.taxis[a[2]].fuel # 0

\* A taxi that has driven its tank empty, refuelled, and driven it empty
\* again away from a gas station, while moves are still offered to another.
FuelWitness ==
    /\ \E t \in DOMAIN state.taxis :
           /\ state.taxis[t].fuel = 0
           /\ state.taxis[t].MAX_FUEL > 0
           /\ manhattan_distance(state.taxis[t].location,
                                 initial.taxis[t].location)
                  > state.taxis[t].MAX_FUEL
    /\ \E a \in Offered : a[1] = "move"

(* ---------------------------------------------------------------------- *)
(* C10: in every reachable state every taxi's capacity is >= 0 and the     *)
(* number of passengers on board is at most the taxi's initial capacity;   *)
(* a pick up is offered for a taxi only when its capacity is > 0.          *)
(* ---------------------------------------------------------------------- *)
CapacityBounds ==
    /\ \A t \in DOMAIN state.taxis :
           /\ state.taxis[t].capacity >= 0
           /\ Len(state.taxis[t].passengers_on_taxi)
                  <= initial.taxis[t].capacity
    /\ \A a \in Offered : a[1] = "pick up" => state.taxis[a[2]].capacity > 0

\* A full taxi standing on the cell of a passenger who is not yet picked.
CapacityWitness ==
    \E t \in DOMAIN state.taxis :
        /\ state.taxis[t].capacity = 0
        /\ initial.taxis[t].capacity > 0
        /\ Len(state.taxis[t].passengers_on_taxi) = initial.taxis[t].capacity
        /\ \E p \in Unpicked :
               state.passengers[p].location = state.taxis[t].location

(* ---------------------------------------------------------------------- *)
(* C9: refuel and gas stations.                                            *)
(* ---------------------------------------------------------------------- *)
AtGasStation(t) ==
    Cell(state.taxis[t].location[1], state.taxis[t].location[2]) = "G"

TaxisApart ==
    \A t, u \in DOMAIN state.taxis :
        t # u => state.taxis[t].location # state.taxis[u].location

\* Applying a returned action that holds a refuel sets that taxi's fuel to
\* MAX_FUEL and leaves its location, capacity and passengers unchanged.
RefuelEffect ==
    \A action \in actions(state) :
        \A a \in Components(action) :
            a[1] = "refuel" =>
                /\ state.taxis[a[2]].fuel \in 0..state.taxis[a[2]].MAX_FUEL
                /\ result(state, action).taxis[a[2]] =
                       [state.taxis[a[2]] EXCEPT
                           !.fuel = state.taxis[a[2]].MAX_FUEL]

\* C9 as stated: actions() offers refuel for a taxi if and only if the
\* taxi's current cell is a gas station ('G'), and applying refuel sets the
\* taxi's fuel to exactly MAX_FUEL while leaving its location, capacity and
\* on-board passengers unchanged.
RefuelIffGasStation ==
    /\ \A t \in DOMAIN state.taxis :
           (<<"refuel", t>> \in Offered) <=> AtGasStation(t)
    /\ RefuelEffect

\* C9 as amended: actions() offers refuel for a taxi only if the taxi's
\* current cell is a gas station, and does offer it there whenever the
\* taxis' locations are pairwise distinct; applying refuel sets the taxi's
\* fuel to exactly MAX_FUEL while leaving its location, capacity and on-board
\* passengers unchanged.
RefuelIffGasStationApart ==
    /\ \A t \in DOMAIN state.taxis :
           (<<"refuel", t>> \in Offered) => AtGasStation(t)
    /\ TaxisApart =>
           \A t \in DOMAIN state.taxis :
               AtGasStation(t) => <<"refuel", t>> \in Offered
    /\ RefuelEffect

\* Two taxis apart, one on the gas station with an empty tank and a
\* passenger on board, the other not on a gas station.
RefuelWitness ==
    /\ NumTaxis = 2
    /\ TaxisApart
    /\ \E t \in DOMAIN state.taxis :
           /\ AtGasStation(t)
           /\ state.taxis[t].fuel = 0
           /\ state.taxis[t].MAX_FUEL = MaxFuel
           /\ state.taxis[t].passengers_on_taxi # <<>>
           /\ <<"refuel", t>> \in Offered
    /\ \E t \in DOMAIN state.taxis :
           ~AtGasStation(t) /\ <<"refuel", t>> \notin Offered

(* ---------------------------------------------------------------------- *)
(* Admissibility: the search evaluates the heuristics on a reachable node  *)
(* and then follows any path from it; when the path reaches a goal state   *)
(* the evaluated value is compared with the number of steps taken.         *)
(* ---------------------------------------------------------------------- *)
NextAdm == StepAtomic \/ StepJoint \/ Evaluate

SpecAdm == InitAdm /\ [][NextAdm]_vars

\* A path from the evaluated node has just reached a goal state.
GoalReachedFromNode == evaluated /\ goal_test(state)

(* ---------------------------------------------------------------------- *)
(* C3: h is admissible: h(node) is at most the number of steps of every    *)
(* path from the node to a goal state, hence at most the minimum.          *)
(* ---------------------------------------------------------------------- *)
HAdmissible == GoalReachedFromNode => LeqInt(node_h.h, path_cost)

(* ---------------------------------------------------------------------- *)
(* C4: h_1 is admissible: h_1(node) is at most the number of steps of      *)
(* every path from the node to a goal state, hence at most the minimum.    *)
(* ---------------------------------------------------------------------- *)
H1Admissible == GoalReachedFromNode => LeqInt(node_h.h_1, path_cost)

\* Two taxis, one passenger on board and one not yet picked at the node
\* (h_1 = 3/2), both delivered two steps later: the bound is met.
H1Witness ==
    /\ GoalReachedFromNode
    /\ NumTaxis = 2
    /\ path_cost = 2
    /\ node_h.h_1 = <<3, 2>>

(* ---------------------------------------------------------------------- *)
(* C5: h_2 is admissible: h_2(node) is at most the number of steps of      *)
(* every path from the node to a goal state, hence at most the minimum.    *)
(* ---------------------------------------------------------------------- *)
H2Admissible == GoalReachedFromNode => LeqInt(node_h.h_2, path_cost)

(* ---------------------------------------------------------------------- *)
(* C11: once a passenger has is_arrived true, is_arrived stays true in     *)
(* every later state, and in that state and every later one no action      *)
(* returned by actions() (atomic, or component of a joint action) is a     *)
(* pick up or a drop off of that passenger.                                *)
(* ---------------------------------------------------------------------- *)
Arrived == {p \in DOMAIN state.passengers : state.passengers[p].is_arrived}

NoActionOnArrived ==
    \A a \in Offered :
        a[1] \in {"pick up", "drop off"} => a[3] \notin Arrived

ArrivedStays ==
    \A p \in Arrived : state'.passengers[p].is_arrived

DeliveryIsFinal == [](NoActionOnArrived) /\ [][ArrivedStays]_vars

\* A delivered passenger whose origin cell holds a taxi with a free seat and
\* whose destination cell holds a taxi, after a further step from delivery.
DeliveryWitness ==
    \E p \in Arrived :
        /\ \E t \in DOMAIN state.taxis :
               /\ state.taxis[t].location = state.passengers[p].location
               /\ state.taxis[t].capacity > 0
        /\ \E t \in DOMAIN state.taxis :
               /\ state.taxis[t].location = state.passengers[p].destination
               /\ state.taxis[t].fuel < state.taxis[t].MAX_FUEL

(* ---------------------------------------------------------------------- *)
(* Shortest plans: breadth-first enumeration of the action sequences from  *)
(* a state, up to MaxPlan steps.                                           *)
(* ---------------------------------------------------------------------- *)
\* The action sequences of k steps from s0, each with the state it reaches.
RECURSIVE PlansOfLength(_, _)
PlansOfLength(s0, k) ==
    IF k = 0 THEN {[plan |-> <<>>, reached |-> s0]}
    ELSE UNION {{[plan |-> Append(n.plan, a),
                  reached |-> result(n.reached, a)] : a \in actions(n.reached)} :
                n \in PlansOfLength(s0, k - 1)}

GoalPlans(s0, k) ==
    {n.plan : n \in {m \in PlansOfLength(s0, k) : goal_test(m.reached)}}

\* The shortest action sequences from s0 to a goal state ({} if none has at
\* most MaxPlan steps).
RECURSIVE ShortestFrom(_, _)
ShortestFrom(s0, k) ==
    IF GoalPlans(s0, k) # {} THEN GoalPlans(s0, k)
    ELSE IF k >= MaxPlan THEN {}
    ELSE ShortestFrom(s0, k + 1)

ShortestPlans(s0) == ShortestFrom(s0, 0)

\* The action kinds of a plan of atomic actions.
Kinds(plan) == [i \in DOMAIN plan |-> plan[i][1]]

\* The input of C12: one taxi on a 1x2 grid without walls, fuel >= 1 and
\* capacity >= 1, one passenger whose origin is the taxi's cell and whose
\* destination is the other cell.
AdjacentPassengerInput ==
    /\ Cardinality(DOMAIN initial.taxis) = 1
    /\ Cardinality(DOMAIN initial.passengers) = 1
    /\ Len(initial.map) = 1
    /\ Len(initial.map[1]) = 2
    /\ "I" \notin Range(initial.map[1])
    /\ \A t \in DOMAIN initial.taxis, p \in DOMAIN initial.passengers :
           /\ initial.taxis[t].fuel >= 1
           /\ initial.taxis[t].capacity >= 1
           /\ initial.passengers[p].location = initial.taxis[t].location
           /\ initial.passengers[p].destination # initial.taxis[t].location
           /\ initial.passengers[p].destination \in {<<0, 0>>, <<0, 1>>}

(* ---------------------------------------------------------------------- *)
(* C12 as stated: for that input the shortest sequence of actions from     *)
(* the initial state to a goal state has length 2 and is                   *)
(* [pick up, drop off].                                                    *)
(* ---------------------------------------------------------------------- *)
ShortestIsPickUpDropOff ==
    AdjacentPassengerInput =>
        {Kinds(plan) : plan \in ShortestPlans(InitialState(initial))}
            = {<<"pick up", "drop off">>}

\* C12 as amended: for that input the shortest sequence of actions from the
\* initial state to a goal state has length 3 and is
\* [pick up, move, drop off].
ShortestIsPickUpMoveDropOff ==
    AdjacentPassengerInput =>
        {Kinds(plan) : plan \in ShortestPlans(InitialState(initial))}
            = {<<"pick up", "move", "drop off">>}

\* The goal state of that input, three steps and one unit of fuel later.
ShortestWitness ==
    /\ AdjacentPassengerInput
    /\ goal_test(state)
    /\ \A t \in DOMAIN state.taxis :
           /\ state.taxis[t].fuel = state.taxis[t].MAX_FUEL - 1
           /\ state.taxis[t].location # initial.taxis[t].location

(* ---------------------------------------------------------------------- *)
(* C13: state values are canonical: any two action sequences from the      *)
(* initial state that end with the same taxi fields (the same set of       *)
(* passengers on board), the same passenger fields and the same counters   *)
(* produce equal state values.  The sequences compared are the empty one   *)
(* and the ones that lead to the current state and go on one or two steps. *)
(* ---------------------------------------------------------------------- *)
SameFields(d1, d2) ==
    /\ DOMAIN d1.taxis = DOMAIN d2.taxis
    /\ \A t \in DOMAIN d1.taxis :
           /\ d1.taxis[t].location = d2.taxis[t].location
           /\ d1.taxis[t].fuel = d2.taxis[t].fuel
           /\ d1.taxis[t].capacity = d2.taxis[t].capacity
           /\ d1.taxis[t].MAX_FUEL = d2.taxis[t].MAX_FUEL
           /\ Range(d1.taxis[t].passengers_on_taxi)
                  = Range(d2.taxis[t].passengers_on_taxi)
    /\ d1.passengers = d2.passengers
    /\ d1.num_of_undelivered = d2.num_of_undelivered
    /\ d1.num_of_unpicked = d2.num_of_unpicked
    /\ d1.num_of_picked_undelivered = d2.num_of_picked_undelivered

\* The state values of those sequences, each with the fields it encodes.
ValuesNearby ==
    {[fields |-> InitialState(initial), value |-> initial_value(initial)]}
    \cup UNION {{[fields |-> result(state, a), value |-> result_value(state, a)]}
                \cup {[fields |-> result(result(state, a), b),
                       value |-> result_value(result(state, a), b)] :
                          b \in actions(result(state, a))} :
                a \in actions(state)}

StateValuesCanonical ==
    \A v1, v2 \in ValuesNearby :
        SameFields(v1.fields, v2.fields) => v1.value = v2.value

(* ---------------------------------------------------------------------- *)
(* Malformed inputs.  __init__ reads the map for gas stations and copies   *)
(* the taxis and passengers; it tests neither locations nor fuel nor       *)
(* capacity.  actions() indexes self.map with every taxi's location, and   *)
(* raises IndexError when a coordinate is at or beyond the grid's size.    *)
(* ---------------------------------------------------------------------- *)
InGrid(grid, loc) ==
    /\ loc[1] \in 0..(Len(grid) - 1)
    /\ loc[2] \in 0..(Len(grid[1]) - 1)

\* actions(state) raises IndexError (self.map[x][y] in the refuel test, if
\* not before).
index_error(s) ==
    \E t \in DOMAIN s.taxis :
        \/ s.taxis[t].location[1] >= Len(Map)
        \/ s.taxis[t].location[2] >= Len(Map[1])

InputsMalformed ==
    \* negative fuel or negative capacity, one taxi
    {[map |-> MapA,
      taxis |-> ("taxi 1" :> Taxi(<<0, 0>>, f, c)),
      passengers |->
          ("Iris" :> Passenger(<<0, 0>>, <<0, 1>>) @@
           "Tomer" :> Passenger(<<0, 1>>, <<0, 0>>))] :
        f \in (-1)..MaxFuel, c \in {-1}}
    \cup
    {[map |-> MapA,
      taxis |-> ("taxi 1" :> Taxi(<<0, 0>>, -1, c)),
      passengers |->
          ("Iris" :> Passenger(<<0, 0>>, <<0, 1>>) @@
           "Tomer" :> Passenger(<<0, 1>>, <<0, 0>>))] :
        c \in 0..MaxCapacity}
    \cup
    \* a passenger outside the grid
    {[map |-> MapA,
      taxis |-> ("taxi 1" :> Taxi(<<0, 0>>, f, c)),
      passengers |->
          ("Iris" :> Passenger(<<0, 3>>, <<0, 1>>) @@
           "Tomer" :> Passenger(<<0, 1>>, <<0, 0>>))] :
        f \in 0..MaxFuel, c \in 0..MaxCapacity}
    \cup
    \* a taxi outside the grid
    {[map |-> MapA,
      taxis |-> ("taxi 1" :> Taxi(l, f, 1)),
      passengers |-> ("Iris" :> Passenger(<<0, 0>>, <<0, 1>>))] :
        l \in {<<2, 0>>, <<0, 3>>}, f \in 0..MaxFuel}
    \cup
    \* two taxis, the second with negative fuel
    {[map |-> MapA,
      taxis |-> ("taxi 1" :> Taxi(<<0, 0>>, f, c) @@
                 "taxi 2" :> Taxi(<<0, 2>>, -1, c)),
      passengers |->
          ("Iris" :> Passenger(<<0, 0>>, <<0, 1>>) @@
           "Tomer" :> Passenger(<<0, 2>>, <<0, 2>>))] :
        f \in 0..MaxFuel, c \in 0..MaxCapacity}

InitMalformed == Construct(InputsMalformed)

\* A step of the search, unless actions() raises.
NextMalformed == ~index_error(state) /\ (StepAtomic \/ StepJoint)

SpecMalformed == InitMalformed /\ [][NextMalformed]_vars

Malformed(inp) ==
    \/ \E t \in DOMAIN inp.taxis :
           \/ ~InGrid(inp.map, inp.taxis[t].location)
           \/ inp.taxis[t].fuel < 0
           \/ inp.taxis[t].capacity < 0
    \/ \E p \in DOMAIN inp.passengers :
           ~InGrid(inp.map, inp.passengers[p].location)

(* ---------------------------------------------------------------------- *)
(* C14: construction from input in which a taxi or passenger location      *)
(* lies outside the grid, or a taxi's fuel or capacity is negative, fails: *)
(* no initial state is produced from such input and no action enumeration  *)
(* or transition is ever performed on it.                                  *)
(* ---------------------------------------------------------------------- *)
MalformedInputRejected ==
    [](~Malformed(initial)) /\ [][~Malformed(initial)]_vars

(* ---------------------------------------------------------------------- *)
(* C15: in every state, also one in which several taxis share a cell, no   *)
(* joint action returned by actions() holds pick up actions by two         *)
(* different taxis for the same passenger, and a step lowers               *)
(* num_of_unpicked by exactly the number of passengers it picks up.        *)
(* ---------------------------------------------------------------------- *)
PickUps(action) == {i \in DOMAIN action : action[i][1] = "pick up"}

SamePassengerTwice(action) ==
    \E i, j \in PickUps(action) : i # j /\ action[i][3] = action[j][3]

NoDoublePickUp ==
    NumTaxis >= 2 => \A action \in actions(state) : ~SamePassengerTwice(action)

UnpickedDropsOncePerPassenger ==
    state.num_of_unpicked - state'.num_of_unpicked =
        Cardinality({p \in DOMAIN state.passengers :
                        /\ ~state.passengers[p].is_picked
                        /\ state'.passengers[p].is_picked})

OnePickUpPerPassenger ==
    [](NoDoublePickUp) /\ [][UnpickedDropsOncePerPassenger]_vars

\* Two taxis with free seats share the cell of an unpicked passenger: the
\* Cartesian product holds the double pick up, and single pick ups remain.
DoublePickUpWitness ==
    /\ NumTaxis >= 2
    /\ \E action \in product(taxis_action(state)) : SamePassengerTwice(action)
    /\ \E action \in actions(state) : PickUps(action) # {}

(* ---------------------------------------------------------------------- *)
(* C16: in every reachable state a passenger on board a taxi has           *)
(* current_location equal to that taxi's location, a passenger not yet     *)
(* picked has current_location equal to the origin, and a delivered        *)
(* passenger has current_location equal to the destination, which no       *)
(* later action changes.                                                   *)
(* ---------------------------------------------------------------------- *)
CurrentLocationTracks ==
    /\ \A t \in DOMAIN state.taxis :
           \A i \in DOMAIN state.taxis[t].passengers_on_taxi :
               state.passengers[state.taxis[t].passengers_on_taxi[i]].current_location
                   = state.taxis[t].location
    /\ \A p \in OnBoard :
           \E t \in DOMAIN state.taxis :
               /\ p \in Range(state.taxis[t].passengers_on_taxi)
               /\ state.passengers[p].current_location = state.taxis[t].location
    /\ \A p \in Unpicked :
           state.passengers[p].current_location = state.passengers[p].location
    /\ \A p \in Arrived :
           state.passengers[p].current_location = state.passengers[p].destination

DeliveredStaysPut ==
    \A p \in Arrived :
        state'.passengers[p].current_location = state.passengers[p].current_location

CurrentLocationFollows ==
    [](CurrentLocationTracks) /\ [][DeliveredStaysPut]_vars

\* One passenger was carried to a destination away from the origin and
\* delivered, the taxi has moved on, and the other passenger is on board
\* away from their own origin.
CurrentLocationWitness ==
    \E p, q \in DOMAIN state.passengers, t \in DOMAIN state.taxis :
        /\ p \in Arrived
        /\ state.passengers[p].destination # state.passengers[p].location
        /\ state.taxis[t].location # state.passengers[p].destination
        /\ q \in Range(state.taxis[t].passengers_on_taxi)
        /\ state.passengers[q].current_location # state.passengers[q].location

(* ---------------------------------------------------------------------- *)
(* C17: if every taxi starts on an in-bounds cell that is not a wall, then *)
(* in every reachable state every taxi is on an in-bounds cell that is not *)
(* a wall, and a move is offered only to one of the four orthogonally      *)
(* adjacent cells, and only when that cell is inside the grid and not a    *)
(* wall.                                                                   *)
(* ---------------------------------------------------------------------- *)
FreeCell(loc) == InGrid(Map, loc) /\ Cell(loc[1], loc[2]) # "I"

StartsOnFreeCells ==
    \A t \in DOMAIN initial.taxis : FreeCell(initial.taxis[t].location)

TaxisOnFreeCells ==
    \A t \in DOMAIN state.taxis : FreeCell(state.taxis[t].location)

MovesToFreeNeighbours ==
    \A a \in Offered :
        a[1] = "move" =>
            /\ manhattan_distance(a[3], state.taxis[a[2]].location) = 1
            /\ FreeCell(a[3])

TaxisStayOnFreeCells ==
    StartsOnFreeCells => TaxisOnFreeCells /\ MovesToFreeNeighbours

\* A taxi with fuel has moved next to the wall and next to the border: the
\* wall cell and the cell beyond the border are not among its moves, another
\* neighbour is.
WallWitness ==
    \E t \in DOMAIN state.taxis :
        LET x == state.taxis[t].location[1]
            y == state.taxis[t].location[2]
        IN  /\ state.taxis[t].location # initial.taxis[t].location
            /\ state.taxis[t].fuel > 0
            /\ x = 0
            /\ InGrid(Map, <<x + 1, y>>) /\ Cell(x + 1, y) = "I"
            /\ <<"move", t, <<x + 1, y>>>> \notin Offered
            /\ \E a \in Offered : a[1] = "move" /\ a[2] = t

(* ---------------------------------------------------------------------- *)
(* C18: in every reachable state a passenger is in some taxi's             *)
(* passengers_on_taxi list iff is_picked is true and is_arrived is false,  *)
(* and is then in exactly one taxi's list exactly once; each taxi's        *)
(* capacity plus the length of its list equals its initial capacity.       *)
(* ---------------------------------------------------------------------- *)
Seats(p) ==
    UNION {{<<t, i>> : i \in {j \in DOMAIN state.taxis[t].passengers_on_taxi :
                                  state.taxis[t].passengers_on_taxi[j] = p}} :
           t \in DOMAIN state.taxis}

OnBoardIffListed ==
    /\ \A p \in DOMAIN state.passengers :
           /\ Seats(p) # {} <=> p \in OnBoard
           /\ p \in OnBoard => Cardinality(Seats(p)) = 1
    /\ \A t \in DOMAIN state.taxis :
           /\ Range(state.taxis[t].passengers_on_taxi) \subseteq DOMAIN state.passengers
           /\ state.taxis[t].capacity + Len(state.taxis[t].passengers_on_taxi)
                  = initial.taxis[t].capacity

\* Two taxis: one passenger has been delivered and another is on board.
OnBoardWitness ==
    /\ NumTaxis >= 2
    /\ Arrived # {}
    /\ \E t \in DOMAIN state.taxis : state.taxis[t].passengers_on_taxi # <<>>

(* ---------------------------------------------------------------------- *)
(* C19: if the taxis' initial locations are pairwise distinct, then in     *)
(* every reachable state the taxis' locations are pairwise distinct and    *)
(* actions(state) is not empty: it holds the wait action (one taxi) or the *)
(* joint action in which every taxi waits (several taxis), so every        *)
(* reachable state has a successor.                                        *)
(* ---------------------------------------------------------------------- *)
InitiallyApart ==
    \A t, u \in DOMAIN initial.taxis :
        t # u => initial.taxis[t].location # initial.taxis[u].location

AllWait ==
    LET order == Keys(TaxiNames, state.taxis)
    IN  IF NumTaxis = 1
        THEN <<"wait", order[1]>>
        ELSE [i \in DOMAIN order |-> <<"wait", order[i]>>]

ApartAndNeverStuck ==
    InitiallyApart =>
        /\ TaxisApart
        /\ AllWait \in actions(state)
        /\ ENABLED Next

\* Three taxis that started apart, one has moved, and the collision filter
\* has removed a joint action in the present state.
ApartWitness ==
    /\ InitiallyApart
    /\ NumTaxis = 3
    /\ \E t \in DOMAIN state.taxis :
           state.taxis[t].location # initial.taxis[t].location
    /\ product(taxis_action(state)) # actions(state)

(* ---------------------------------------------------------------------- *)
(* C20: for every reachable state with pairwise distinct taxi locations    *)
(* and every joint action returned by actions(state), the state produced   *)
(* by result() does not depend on the order in which the per-taxi atomic   *)
(* actions are applied: applying them one after another in any permutation *)
(* yields the state obtained by applying them simultaneously to the input  *)
(* state.                                                                  *)
(* ---------------------------------------------------------------------- *)
\* The atomic actions of a joint action that change passenger p when applied
\* to the input state.
Touching(s, action, p) ==
    {i \in DOMAIN action :
        apply_taxi_action(s, action[i]).passengers[p] # s.passengers[p]}

\* Every atomic action applied to the input state s: each taxi takes the
\* record its own action gives it, each passenger the record given by the
\* action that changes it, each counter the sum of the changes.
Simultaneous(s, action) ==
    LET effect(i) == apply_taxi_action(s, action[i])
        delta(i, counter) == effect(i)[counter] - s[counter]
        total(counter) ==
            s[counter] + SumOver(DOMAIN action, [i \in DOMAIN action |-> delta(i, counter)])
    IN  [taxis |-> [t \in DOMAIN s.taxis |->
                       LET i == CHOOSE j \in DOMAIN action : action[j][2] = t
                       IN  effect(i).taxis[t]],
         passengers |-> [p \in DOMAIN s.passengers |->
                       IF Touching(s, action, p) = {} THEN s.passengers[p]
                       ELSE effect(CHOOSE i \in Touching(s, action, p) : TRUE).passengers[p]],
         num_of_undelivered |-> total("num_of_undelivered"),
         num_of_unpicked |-> total("num_of_unpicked"),
         num_of_picked_undelivered |-> total("num_of_picked_undelivered")]

Permuted(action, perm) == [i \in DOMAIN action |-> action[perm[i]]]

OrderIndependent ==
    (NumTaxis >= 2 /\ TaxisApart) =>
        \A action \in actions(state) :
            /\ \A p \in DOMAIN state.passengers :
                   Cardinality(Touching(state, action, p)) <= 1
            /\ result(state, action) = Simultaneous(state, action)
            /\ \A perm \in Permutations(DOMAIN action) :
                   apply_all(state, Permuted(action, perm)) = Simultaneous(state, action)

\* Two taxis on distinct cells may swap cells in one joint action while one of
\* them carries a passenger.
OrderWitness ==
    /\ NumTaxis >= 2 /\ TaxisApart
    /\ \E action \in actions(state) :
           \E i, j \in DOMAIN action :
               /\ action[i][1] = "move" /\ action[j][1] = "move"
               /\ action[i][3] = state.taxis[action[j][2]].location
               /\ action[j][3] = state.taxis[action[i][2]].location
               /\ state.taxis[action[i][2]].passengers_on_taxi # <<>>

====
